---- MODULE Spec2Model ----
(***************************************************************************)
(* Model of refresh_text.py: a Scribus macro that reads one column of a    *)
(* CSV file and replaces the text of a named frame with it.                *)
(*                                                                         *)
(* Text is a sequence of one-character strings.  The file is the sequence  *)
(* of characters it holds before decoding; BOM stands for the UTF-8        *)
(* byte-order mark (U+FEFF once decoded).                                  *)
(***************************************************************************)
EXTENDS Integers, Sequences, FiniteSets, TLC

\* ------------------------------------------------------------------ bounds
\* Longest file, in characters.
MaxLen == 5
\* Largest column index tried.
MaxCol == 1

\* --------------------------------------------------------------- constants
DELIMITER == ","
QUOTECHAR == "\""
LINE_MODE == 0

CR == "\r"
LF == "\n"
BOM == "BOM"
\* The end-of-line marker csv.reader feeds its parser after each line.
EOL == "EOL"

\* The characters a file is made of: an ordinary character, the delimiter,
\* the quote character, both line terminators and the byte-order mark.
Alphabet == {"a", DELIMITER, QUOTECHAR, CR, LF, BOM}

RECURSIVE SeqsUpTo(_, _)
SeqsUpTo(S, n) ==
    IF n = 0 THEN {<<>>}
    ELSE LET shorter == SeqsUpTo(S, n - 1)
         IN  shorter \cup {Append(s, c) : s \in {t \in shorter : Len(t) = n - 1}, c \in S}

\* Every file content of at most MaxLen characters.
Files == SeqsUpTo(Alphabet, MaxLen)

\* ------------------------------------------------------- open(), line 130
\* encoding="utf-8-sig": one leading byte-order mark is dropped, any later
\* U+FEFF is data.
\* Variant: plain utf-8, which keeps the mark as data.
DecodeUtf8(bytes) == bytes
DecodeUtf8Sig(bytes) ==
    IF Len(bytes) > 0 /\ bytes[1] = BOM THEN Tail(bytes) ELSE bytes

\* newline="": iterating the file yields lines ended by "\n", "\r" or
\* "\r\n", the terminator kept untranslated at the end of the line.
RECURSIVE SplitLines(_, _, _)
SplitLines(s, i, cur) ==
    IF i > Len(s) THEN (IF cur = <<>> THEN <<>> ELSE <<cur>>)
    ELSE IF s[i] = LF THEN <<Append(cur, LF)>> \o SplitLines(s, i + 1, <<>>)
    ELSE IF s[i] = CR THEN
        IF i < Len(s) /\ s[i + 1] = LF
        THEN <<cur \o <<CR, LF>> >> \o SplitLines(s, i + 2, <<>>)
        ELSE <<Append(cur, CR)>> \o SplitLines(s, i + 1, <<>>)
    ELSE SplitLines(s, i + 1, Append(cur, s[i]))

FileLines(text) == SplitLines(text, 1, <<>>)

\* -------------------------------------------------- csv.reader, line 131
\* The parser of csv.reader under the default dialect with the given
\* delimiter and quotechar: doublequote on, no escapechar, not strict,
\* skipinitialspace off, QUOTE_MINIMAL.
parse_reset == [state |-> "START_RECORD", fields |-> <<>>, field |-> <<>>]

parse_save_field(p) ==
    [p EXCEPT !.fields = Append(@, p.field), !.field = <<>>]

parse_add_char(p, c) == [p EXCEPT !.field = Append(@, c)]

AfterNewline(c) == IF c = EOL THEN "START_RECORD" ELSE "EAT_CRNL"

IsNewline(c) == c = LF \/ c = CR

StartField(p, c) ==
    IF IsNewline(c) \/ c = EOL
    THEN [parse_save_field(p) EXCEPT !.state = AfterNewline(c)]
    ELSE IF c = QUOTECHAR THEN [p EXCEPT !.state = "IN_QUOTED_FIELD"]
    ELSE IF c = DELIMITER THEN [parse_save_field(p) EXCEPT !.state = "START_FIELD"]
    ELSE [parse_add_char(p, c) EXCEPT !.state = "IN_FIELD"]

parse_process_char(p, c) ==
    CASE p.state = "START_RECORD" ->
            IF c = EOL THEN p
            ELSE IF IsNewline(c) THEN [p EXCEPT !.state = "EAT_CRNL"]
            ELSE StartField(p, c)
      [] p.state = "START_FIELD" -> StartField(p, c)
      [] p.state = "IN_FIELD" ->
            IF IsNewline(c) \/ c = EOL
            THEN [parse_save_field(p) EXCEPT !.state = AfterNewline(c)]
            ELSE IF c = DELIMITER
            THEN [parse_save_field(p) EXCEPT !.state = "START_FIELD"]
            ELSE parse_add_char(p, c)
      [] p.state = "IN_QUOTED_FIELD" ->
            IF c = EOL THEN p
            ELSE IF c = QUOTECHAR THEN [p EXCEPT !.state = "QUOTE_IN_QUOTED_FIELD"]
            ELSE parse_add_char(p, c)
      [] p.state = "QUOTE_IN_QUOTED_FIELD" ->
            IF c = QUOTECHAR
            THEN [parse_add_char(p, c) EXCEPT !.state = "IN_QUOTED_FIELD"]
            ELSE IF c = DELIMITER
            THEN [parse_save_field(p) EXCEPT !.state = "START_FIELD"]
            ELSE IF IsNewline(c) \/ c = EOL
            THEN [parse_save_field(p) EXCEPT !.state = AfterNewline(c)]
            ELSE [parse_add_char(p, c) EXCEPT !.state = "IN_FIELD"]
      [] p.state = "EAT_CRNL" ->
            IF c = EOL THEN [p EXCEPT !.state = "START_RECORD"] ELSE p

RECURSIVE ParseLine(_, _, _)
ParseLine(p, line, i) ==
    IF i > Len(line) THEN parse_process_char(p, EOL)
    ELSE ParseLine(parse_process_char(p, line[i]), line, i + 1)

\* Reader_iternext, called until the input is exhausted: a record is
\* complete when a line leaves the parser in START_RECORD; at the end of
\* the input an unfinished record is returned if a field is pending.
RECURSIVE ReaderRows(_, _, _)
ReaderRows(lines, i, p) ==
    IF i > Len(lines)
    THEN IF Len(p.field) # 0 \/ p.state = "IN_QUOTED_FIELD"
         THEN <<parse_save_field(p).fields>>
         ELSE <<>>
    ELSE LET q == ParseLine(p, lines[i], 1)
         IN  IF q.state = "START_RECORD"
             THEN <<q.fields>> \o ReaderRows(lines, i + 1, parse_reset)
             ELSE ReaderRows(lines, i + 1, q)

\* The rows csv.reader yields for a file's content.
CsvRows(bytes) == ReaderRows(FileLines(DecodeUtf8Sig(bytes)), 1, parse_reset)

\* ------------------------------------------- read_csv_column, lines 127-145
\* if skip_header and i == 0: continue          (i counts rows from 0)
\* Variant: the header row is never skipped.
SkipRowNever(skip, i) == FALSE
SkipRow(skip, i) == skip /\ i = 0

\* if len(row) > column_index
HasColumn(row, col) == Len(row) > col

\* row[column_index]
\* Variant: always the first field.
FieldFirst(row, col) == row[1]
Field(row, col) == row[col + 1]

StartsWithAt(s, i, old) ==
    /\ i + Len(old) - 1 <= Len(s)
    /\ \A k \in 1..Len(old) : s[i + k - 1] = old[k]

\* str.replace(old, new) for a non-empty old: the occurrences of old are
\* found from the left, without overlap.
RECURSIVE ReplaceFrom(_, _, _, _)
ReplaceFrom(s, i, old, new) ==
    IF i > Len(s) THEN <<>>
    ELSE IF StartsWithAt(s, i, old) THEN new \o ReplaceFrom(s, i + Len(old), old, new)
    ELSE <<s[i]>> \o ReplaceFrom(s, i + 1, old, new)

Replace(s, old, new) == ReplaceFrom(s, 1, old, new)

\* cell.replace("\r\n", "\n").replace("\r", "\n")
\* Variant: only the first replace, a lone "\r" is kept.
NormalizeCrLfOnly(cell) == Replace(cell, <<CR, LF>>, <<LF>>)
NormalizeLineEndings(cell) ==
    Replace(Replace(cell, <<CR, LF>>, <<LF>>), <<CR>>, <<LF>>)

startswith(s, c) == Len(s) > 0 /\ s[1] = c
endswith(s, c) == Len(s) > 0 /\ s[Len(s)] = c

\* if cell.startswith('"') and cell.endswith('"'): cell = cell[1:-1]
\* Variant: cell[1:], the trailing quote is kept.
StripLeadingQuote(cell) ==
    IF startswith(cell, QUOTECHAR) /\ endswith(cell, QUOTECHAR)
    THEN SubSeq(cell, 2, Len(cell))
    ELSE cell
StripWrappingQuotes(cell) ==
    IF startswith(cell, QUOTECHAR) /\ endswith(cell, QUOTECHAR)
    THEN SubSeq(cell, 2, Len(cell) - 1)
    ELSE cell

\* What one row appends to values.
CellValue(row, col) ==
    IF HasColumn(row, col)
    THEN StripWrappingQuotes(NormalizeLineEndings(Field(row, col)))
    ELSE <<>>

\* for i, row in enumerate(reader): ...
RECURSIVE ColumnValues(_, _, _, _)
ColumnValues(rows, n, col, skip) ==
    IF n > Len(rows) THEN <<>>
    ELSE IF SkipRow(skip, n - 1) THEN ColumnValues(rows, n + 1, col, skip)
    ELSE <<CellValue(rows[n], col)>> \o ColumnValues(rows, n + 1, col, skip)

read_csv_column(bytes, col, skip) == ColumnValues(CsvRows(bytes), 1, col, skip)

\* ---------------------------------------------------- update_from_csv
\* "\n".join(items)
RECURSIVE Join(_)
Join(items) ==
    IF items = <<>> THEN <<>>
    ELSE IF Len(items) = 1 THEN items[1]
    ELSE items[1] \o <<LF>> \o Join(Tail(items))

\* if not items
\* Variant: the test is missing.
NeverEmpty(its) == FALSE
NoItems(its) == its = <<>>

\* row_count = len(items)
\* Variant: the lines of the joined text are counted.
RowCountLines(its) == Len(SelectSeq(Join(its), LAMBDA c : c = LF)) + 1
RowCount(its) == Len(its)

CancelledBox == [caption |-> "Cancelled", message |-> "No file selected.", icon |-> 0]
NoDocBox == [caption |-> "Error", message |-> "No document open.", icon |-> 2]
NoFrameBox == [caption |-> "Error", message |-> "Frame 'TitleFrame' not found.", icon |-> 2]
NoDataBox == [caption |-> "Error", message |-> "CSV has no data rows.", icon |-> 2]
OverflowBox ==
    [caption |-> "Overflow Warning",
     message |-> "Text flows beyond linked frames starting at 'TitleFrame'.",
     icon |-> 1]
SuccessBox(its) ==
    [caption |-> "Success",
     message |-> ToString(RowCount(its)) \o " rows updated.",
     icon |-> 0]

\* The text the frame holds before the script runs.
OldText == <<"o", "l", "d">>

ClosedFile == [open |-> FALSE, data |-> <<>>]

VARIABLES
    pc,            \* position of the script
    skip_header,   \* SKIP_HEADER, as the user set it
    column_index,  \* COLUMN_INDEX, as the user set it
    picked,        \* host: the file dialog returns a path
    doc_open,      \* host: a document is open
    frame_exists,  \* host: an object named FRAME_NAME exists
    readable,      \* the chosen file can be opened and decoded
    f,             \* the file object of read_csv_column's with block
    rows,          \* the rows the reader has yielded inside the with block
    values,        \* read_csv_column's result list
    items,         \* update_from_csv's items
    frameText,     \* host: the text of the frame
    text_overflows, \* host: the frame chain cannot hold frameText
    calls,         \* host: the frame-changing scribus calls made, in order
    boxes          \* host: the message boxes shown, in order

vars == <<pc, skip_header, column_index, picked, doc_open, frame_exists, readable,
          f, rows, values, items, frameText, text_overflows, calls, boxes>>

config == <<skip_header, column_index>>
host == <<picked, doc_open, frame_exists, readable>>

Init ==
    /\ pc = "main"
    /\ skip_header \in BOOLEAN
    /\ column_index \in 0..MaxCol
    /\ picked \in BOOLEAN
    /\ doc_open \in BOOLEAN
    /\ frame_exists \in BOOLEAN
    /\ readable \in BOOLEAN
    /\ f = ClosedFile
    /\ rows = <<>>
    /\ values = <<>>
    /\ items = <<>>
    /\ frameText = OldText
    /\ text_overflows = FALSE
    /\ calls = <<>>
    /\ boxes = <<>>

\* scribus.fileDialog gave no path
NoPath == ~picked
\* not scribus.haveDoc()
\* Variant: the test is missing.
AlwaysDoc == FALSE
NoDocument == ~doc_open
\* not scribus.objectExists(frame_name)
NoFrame == ~frame_exists
\* scribus.textOverflows(frame_name)
\* Variant: the overflow is never reported.
OverflowsNever == FALSE
Overflows == text_overflows
\* scribus.getTextLength(frame_name)
getTextLength == Len(frameText)

\* __main__ and choose_csv_file
ChooseCsvFile ==
    /\ pc = "main"
    /\ IF NoPath
       THEN /\ boxes' = Append(boxes, CancelledBox)
            /\ pc' = "done"
       ELSE /\ boxes' = boxes
            /\ pc' = "haveDoc"
    /\ UNCHANGED <<config, host, f, rows, values, items, frameText, text_overflows, calls>>

HaveDoc ==
    /\ pc = "haveDoc"
    /\ IF NoDocument
       THEN /\ boxes' = Append(boxes, NoDocBox)
            /\ pc' = "done"
       ELSE /\ boxes' = boxes
            /\ pc' = "objectExists"
    /\ UNCHANGED <<config, host, f, rows, values, items, frameText, text_overflows, calls>>

ObjectExists ==
    /\ pc = "objectExists"
    /\ IF NoFrame
       THEN /\ boxes' = Append(boxes, NoFrameBox)
            /\ pc' = "done"
       ELSE /\ boxes' = boxes
            /\ pc' = "read_csv_column"
    /\ UNCHANGED <<config, host, f, rows, values, items, frameText, text_overflows, calls>>

\* open() or the decoding raises: the exception leaves the script.
ReadFails ==
    /\ pc = "read_csv_column"
    /\ ~readable
    /\ pc' = "raised"
    /\ UNCHANGED <<config, host, f, rows, values, items, frameText, text_overflows, calls, boxes>>

\* The body of the with block: the file is open and every row is read.
ReadCsv ==
    /\ pc = "read_csv_column"
    /\ readable
    /\ \E bytes \in Files :
          /\ f' = [open |-> TRUE, data |-> bytes]
          /\ rows' = CsvRows(bytes)
          /\ values' = read_csv_column(bytes, column_index, skip_header)
    /\ pc' = "read"
    /\ UNCHANGED <<config, host, items, frameText, text_overflows, calls, boxes>>

\* The with block closes the file; return values; items = ...
ReturnValues ==
    /\ pc = "read"
    /\ f' = ClosedFile
    /\ rows' = <<>>
    /\ items' = values
    /\ pc' = "check_items"
    /\ UNCHANGED <<config, host, values, frameText, text_overflows, calls, boxes>>

CheckItems ==
    /\ pc = "check_items"
    /\ IF NoItems(items)
       THEN /\ boxes' = Append(boxes, NoDataBox)
            /\ pc' = "done"
       ELSE /\ boxes' = boxes
            /\ pc' = "deleteText"
    /\ UNCHANGED <<config, host, f, rows, values, items, frameText, text_overflows, calls>>

\* scribus.selectObject; scribus.deleteText
DeleteText ==
    /\ pc = "deleteText"
    /\ calls' = calls \o <<"selectObject", "deleteText">>
    /\ frameText' = <<>>
    /\ text_overflows' = FALSE
    /\ pc' = "insertText"
    /\ UNCHANGED <<config, host, f, rows, values, items, boxes>>

\* scribus.insertText(text, 0, frame_name); whether the chain holds the
\* text is the host's layout, unknown to the script.
InsertText ==
    /\ pc = "insertText"
    /\ calls' = Append(calls, "insertText")
    /\ frameText' = Join(items) \o frameText
    /\ text_overflows' \in BOOLEAN
    /\ pc' = "apply_formatting"
    /\ UNCHANGED <<config, host, f, rows, values, items, boxes>>

FormatCalls ==
    <<"selectText", "setFont", "setFontSize", "setTextAlignment", "setLineSpacingMode">>
        \o (IF LINE_MODE = 0 THEN <<"setLineSpacing">> ELSE <<>>)

\* apply_formatting: nothing to format
ApplyFormattingEmpty ==
    /\ pc = "apply_formatting"
    /\ getTextLength <= 0
    /\ pc' = "textOverflows"
    /\ UNCHANGED <<config, host, f, rows, values, items, frameText, text_overflows, calls, boxes>>

\* apply_formatting: the range is selected and every setter is called
ApplyFormatting ==
    /\ pc = "apply_formatting"
    /\ getTextLength > 0
    /\ calls' = calls \o FormatCalls
    /\ pc' = "textOverflows"
    /\ UNCHANGED <<config, host, f, rows, values, items, frameText, text_overflows, boxes>>

\* apply_formatting: scribus.setFont raises (the font is not installed)
SetFontFails ==
    /\ pc = "apply_formatting"
    /\ getTextLength > 0
    /\ calls' = calls \o <<"selectText", "setFont">>
    /\ pc' = "raised"
    /\ UNCHANGED <<config, host, f, rows, values, items, frameText, text_overflows, boxes>>

TextOverflows ==
    /\ pc = "textOverflows"
    /\ IF Overflows
       THEN boxes' = Append(boxes, OverflowBox)
       ELSE boxes' = Append(boxes, SuccessBox(items))
    /\ pc' = "done"
    /\ UNCHANGED <<config, host, f, rows, values, items, frameText, text_overflows, calls>>

Next ==
    \/ ChooseCsvFile
    \/ HaveDoc
    \/ ObjectExists
    \/ ReadFails
    \/ ReadCsv
    \/ ReturnValues
    \/ CheckItems
    \/ DeleteText
    \/ InsertText
    \/ ApplyFormattingEmpty
    \/ ApplyFormatting
    \/ SetFontFails
    \/ TextOverflows

Spec == Init /\ [][Next]_vars

\* ================================================================ properties
\* The state inside read_csv_column once every row is read, the file open.
AtRead == pc = "read"
\* The rows csv.reader yielded from the open file.
RowsRead == rows
\* 1 when a header row was skipped, else 0.
Skipped == IF skip_header /\ Len(RowsRead) > 0 THEN 1 ELSE 0
\* The row the k-th value comes from.
RowOf(k) == RowsRead[k + Skipped]

Contains(s, c) == \E k \in 1..Len(s) : s[k] = c
Mentions(fn) == Contains(calls, fn)
IndexOf(fn) == CHOOSE k \in 1..Len(calls) : calls[k] = fn

\* ---- C1
\* C1 as stated: with skip_header set, the number of values is the number of
\* parsed rows minus 1, for every input.
C1_RowsMinusOne ==
    (AtRead /\ skip_header) => Len(values) = Len(RowsRead) - 1

\* C1 amended: with skip_header set and at least one parsed row, the number
\* of values is the number of rows minus 1 (so a header-only file yields no
\* value); a file with no row at all yields no value.
C1_SkipHeaderLength ==
    (AtRead /\ skip_header) =>
        IF Len(RowsRead) >= 1
        THEN Len(values) = Len(RowsRead) - 1
        ELSE values = <<>>

C1_Witness ==
    AtRead /\ skip_header /\ Len(RowsRead) = 1 /\ values = <<>> /\ f.data # <<>>

\* ---- C2
\* C2 as stated: a row with fewer fields than column_index gives "", and
\* every other row gives the value derived from its field at column_index.
C2_FewerThanIndex ==
    AtRead =>
        \A k \in 1..Len(values) :
            IF Len(RowOf(k)) < column_index
            THEN values[k] = <<>>
            ELSE /\ Len(RowOf(k)) > column_index
                 /\ values[k] = StripWrappingQuotes(
                                    NormalizeLineEndings(RowOf(k)[column_index + 1]))

\* C2 amended: a row with at most column_index fields (no field at that
\* index) gives the empty string, and every other row gives the value derived
\* from its field at column_index.
C2_ColumnSelection ==
    AtRead =>
        /\ Len(values) + Skipped = Len(RowsRead)
        /\ \A k \in 1..Len(values) :
            IF Len(RowOf(k)) <= column_index
            THEN values[k] = <<>>
            ELSE values[k] = StripWrappingQuotes(
                                 NormalizeLineEndings(RowOf(k)[column_index + 1]))

C2_Witness ==
    /\ AtRead
    /\ column_index >= 1
    /\ \E k \in 1..Len(values) : Len(RowOf(k)) <= column_index /\ values[k] = <<>>
    /\ \E k \in 1..Len(values) :
          /\ Len(RowOf(k)) > column_index
          /\ RowOf(k)[column_index + 1] # RowOf(k)[1]
          /\ values[k] # <<>>

\* ---- C3
\* Line endings rewritten in one pass from the left: "\r\n" and a lone "\r"
\* each become one "\n", every other character is kept in place.
RECURSIVE OnePassNewlines(_)
OnePassNewlines(s) ==
    IF s = <<>> THEN <<>>
    ELSE IF Len(s) >= 2 /\ s[1] = CR /\ s[2] = LF
    THEN <<LF>> \o OnePassNewlines(SubSeq(s, 3, Len(s)))
    ELSE IF s[1] = CR THEN <<LF>> \o OnePassNewlines(Tail(s))
    ELSE <<s[1]>> \o OnePassNewlines(Tail(s))

\* Dropping one quote at each end of a text of two or more characters that
\* starts and ends with a quote; a lone quote is dropped.
Unwrapped(s) ==
    IF Len(s) >= 1 /\ s[1] = QUOTECHAR /\ s[Len(s)] = QUOTECHAR
    THEN [k \in 1..(IF Len(s) = 1 THEN 0 ELSE Len(s) - 2) |-> s[k + 1]]
    ELSE s

\* C3: no selected field leaves a carriage return in its value: every "\r\n"
\* and every remaining "\r" of the field is one "\n" in the value, the other
\* characters keeping their order.
C3_NoCarriageReturn ==
    AtRead =>
        \A k \in 1..Len(values) :
            Len(RowOf(k)) > column_index =>
                /\ ~Contains(values[k], CR)
                /\ values[k] = Unwrapped(OnePassNewlines(RowOf(k)[column_index + 1]))

C3_Witness ==
    /\ AtRead
    /\ \E k \in 1..Len(values) :
          /\ Len(RowOf(k)) > column_index
          /\ LET fld == RowOf(k)[column_index + 1]
             IN  /\ \E j \in 1..(Len(fld) - 1) : fld[j] = CR /\ fld[j + 1] = LF
                 /\ \E j \in 1..Len(fld) :
                       fld[j] = CR /\ (j = Len(fld) \/ fld[j + 1] # LF)
                 /\ Len(values[k]) = Len(fld) - 1
                 /\ \A j \in 1..Len(values[k]) : values[k][j] = LF

\* ---- C4
\* The field of the k-th value after line-ending normalization.
Normalized(k) == NormalizeLineEndings(RowOf(k)[column_index + 1])
Wrapped(s) == Len(s) >= 1 /\ s[1] = QUOTECHAR /\ s[Len(s)] = QUOTECHAR

\* C4 as stated: a normalized field of any length >= 1 that starts and ends
\* with a quote loses exactly one leading and one trailing quote (two
\* characters); any other field loses none.
C4_AnyLength ==
    AtRead =>
        \A k \in 1..Len(values) :
            Len(RowOf(k)) > column_index =>
                IF Wrapped(Normalized(k))
                THEN /\ Len(values[k]) = Len(Normalized(k)) - 2
                     /\ \A j \in 1..Len(values[k]) : values[k][j] = Normalized(k)[j + 1]
                ELSE values[k] = Normalized(k)

\* C4 amended: a normalized field of length >= 2 that starts and ends with a
\* quote loses exactly one leading and one trailing quote; a field that is a
\* single quote character becomes the empty string; any other field loses
\* nothing.
C4_StripWrappingQuotes ==
    AtRead =>
        \A k \in 1..Len(values) :
            Len(RowOf(k)) > column_index =>
                IF Wrapped(Normalized(k))
                THEN IF Len(Normalized(k)) >= 2
                     THEN /\ Len(values[k]) = Len(Normalized(k)) - 2
                          /\ \A j \in 1..Len(values[k]) :
                                values[k][j] = Normalized(k)[j + 1]
                     ELSE values[k] = <<>>
                ELSE values[k] = Normalized(k)

C4_Witness ==
    /\ AtRead
    /\ \E k \in 1..Len(values) :
          /\ Len(RowOf(k)) > column_index
          /\ Wrapped(Normalized(k))
          /\ Len(Normalized(k)) >= 2
          /\ Len(values[k]) = Len(Normalized(k)) - 2

\* ---- C5
\* A field as a standard CSV writer quotes it: wrapped in quotes, every
\* inner quote doubled.
RECURSIVE DoubleQuotes(_)
DoubleQuotes(s) ==
    IF s = <<>> THEN <<>>
    ELSE IF s[1] = QUOTECHAR THEN <<QUOTECHAR, QUOTECHAR>> \o DoubleQuotes(Tail(s))
    ELSE <<s[1]>> \o DoubleQuotes(Tail(s))

CsvQuoted(content) == <<QUOTECHAR>> \o DoubleQuotes(content) \o <<QUOTECHAR>>

\* Field contents with embedded commas, newlines and quotes.
Contents == SeqsUpTo({"a", DELIMITER, QUOTECHAR, LF}, MaxLen - 2)

\* C5: a file holding one quoted field (with or without the writer's
\* "\r\n" record terminator) reads back as exactly the original content.
C5_RoundTrip ==
    (AtRead /\ ~skip_header /\ column_index = 0 /\ startswith(f.data, QUOTECHAR)) =>
        \A content \in Contents :
            (f.data = CsvQuoted(content) \/ f.data = CsvQuoted(content) \o <<CR, LF>>)
                => values = <<content>>

\* ---- C6
\* C6 as stated: for every file content, the file with a byte-order mark
\* put in front reads as the file without it.
C6_AnyContent ==
    (AtRead /\ startswith(f.data, BOM)) =>
        values = read_csv_column(Tail(f.data), column_index, skip_header)

\* C6 amended: for every file content that does not itself begin with a
\* byte-order mark, the file with a byte-order mark put in front reads as
\* the file without it.
C6_LeadingBom ==
    (AtRead /\ startswith(f.data, BOM) /\ ~startswith(Tail(f.data), BOM)) =>
        values = read_csv_column(Tail(f.data), column_index, skip_header)

C6_Witness ==
    /\ AtRead
    /\ startswith(f.data, BOM)
    /\ ~startswith(Tail(f.data), BOM)
    /\ column_index = 0
    /\ Len(values) >= 1
    /\ values[1] # <<>>
    /\ ~Contains(values[1], BOM)

\* ---- C7
ModifyingCalls == {"deleteText", "insertText"}
Shown(box) == Contains(boxes, box)
SuccessShown == \E k \in 1..Len(boxes) : boxes[k].caption = "Success"

\* C7: when read_csv_column returned no value, update_from_csv shows the
\* "CSV has no data rows." error and returns; once that error is shown there
\* is no Success message and the frame was neither emptied nor filled.
C7_NoDataRows ==
    /\ [][(pc = "check_items" /\ items = <<>>) =>
            /\ pc' = "done"
            /\ boxes' = Append(boxes, NoDataBox)
            /\ calls' = calls
            /\ frameText' = frameText]_vars
    /\ [](Shown(NoDataBox) =>
            /\ pc = "done"
            /\ items = <<>>
            /\ ~SuccessShown
            /\ \A fn \in ModifyingCalls : ~Mentions(fn)
            /\ frameText = OldText)

C7_Witness ==
    pc = "done" /\ boxes = <<NoDataBox>> /\ skip_header /\ calls = <<>>

\* ---- C8
\* C8: the values are one per non-skipped row, in row order; items are those
\* values; and the Success message reports their number, whatever line
\* breaks the cells hold.
C8_RowCount ==
    /\ AtRead =>
         /\ Len(values) = Len(RowsRead) - Skipped
         /\ \A k \in 1..Len(values) : values[k] = CellValue(RowsRead[k + Skipped], column_index)
    /\ pc # "read" => items = values
    /\ \A k \in 1..Len(boxes) :
         boxes[k].caption = "Success" =>
            /\ items = values
            /\ boxes[k].message = ToString(Len(items)) \o " rows updated."

C8_Witness ==
    /\ pc = "done"
    /\ Len(items) = 2
    /\ Contains(items[1], LF)
    /\ boxes = <<[caption |-> "Success", message |-> "2 rows updated.", icon |-> 0]>>

\* ---- C9
FrameCalls == {"deleteText", "insertText", "selectText", "setFont", "setFontSize",
               "setTextAlignment", "setLineSpacingMode", "setLineSpacing"}
FormatSetters == FrameCalls \ {"deleteText", "insertText"}

\* C9: the frame is touched only after every guard has passed (a document
\* is open, the frame exists, the file was read, it gave at least one value);
\* otherwise no deleteText, insertText or formatting call is made and the
\* text is unchanged.  deleteText comes before insertText, which comes
\* before every formatting call.
C9_GuardsBeforeReplace ==
    /\ ((\E fn \in FrameCalls : Mentions(fn)) \/ frameText # OldText) =>
          /\ picked
          /\ doc_open
          /\ frame_exists
          /\ readable
          /\ items # <<>>
    /\ Mentions("insertText") =>
          Mentions("deleteText") /\ IndexOf("deleteText") < IndexOf("insertText")
    /\ \A fn \in FormatSetters :
          Mentions(fn) =>
             Mentions("insertText") /\ IndexOf("insertText") < IndexOf(fn)

C9_Witness ==
    /\ pc = "done"
    /\ calls = <<"selectObject", "deleteText", "insertText">> \o FormatCalls
    /\ frameText = Join(items)
    /\ frameText # <<>>

\* ---- C10
Boxes == {CancelledBox, NoDocBox, NoFrameBox, NoDataBox, OverflowBox}

\* C10: a run that ends without an exception has shown exactly one message
\* box, one of the six; after insertText it is the Overflow Warning if the
\* text overflows and the Success message if not.
C10_OneMessageBox ==
    /\ pc = "done" =>
          /\ Len(boxes) = 1
          /\ boxes[1] \in Boxes \/ boxes[1].caption = "Success"
          /\ Mentions("insertText") =>
                /\ text_overflows <=> boxes[1] = OverflowBox
                /\ ~text_overflows <=> boxes[1].caption = "Success"
    /\ pc \notin {"done", "raised"} => boxes = <<>>

C10_Witness ==
    pc = "done" /\ Mentions("insertText") /\ text_overflows /\ boxes = <<OverflowBox>>
====
